---- MODULE Spec2Model ----
(***************************************************************************)
(* pure_wav (src/src/lib.rs): the binary layout decoder, the one-shot      *)
(* chunk walker (parse_top_header, WaveFile) and the incremental metadata  *)
(* extractor GetMetaDataForI2s (output / input), driven by a byte source.  *)
(*                                                                         *)
(* A u32 is kept at its full width as a pair <<hi, lo>> of 16-bit limbs,   *)
(* and every buffer is a sequence of bytes 0..255 decoded little-endian.   *)
(***************************************************************************)
EXTENDS Integers, Sequences, FiniteSets, TLC

VARIABLES build, state, panicked, wrapped, underflowed, out, last_op, last_input,
          n_inputs, n_outputs, file, chunks, driver, wf, w_prev, w_out, w_n,
          hist

vars == <<build, state, panicked, wrapped, underflowed, out, last_op, last_input,
          n_inputs, n_outputs, file, chunks, driver, wf, w_prev, w_out, w_n,
          hist>>

(***************************************************************************)
(* Unsigned 32-bit arithmetic                                              *)
(***************************************************************************)
Limb == 256 * 256

U32(n) == <<n \div Limb, n % Limb>>

U32Max == <<Limb - 1, Limb - 1>>

Lt(a, b) == a[1] < b[1] \/ (a[1] = b[1] /\ a[2] < b[2])

Le(a, b) == a = b \/ Lt(a, b)

\* a + b modulo 2^32, with the carry out of bit 31
AddU32(a, b) ==
  LET lo == a[2] + b[2]
      hi == a[1] + b[1] + (lo \div Limb)
  IN  [v |-> <<hi % Limb, lo % Limb>>, of |-> hi >= Limb]

\* a - b modulo 2^32, with the borrow
SubU32(a, b) ==
  LET bw == IF a[2] < b[2] THEN 1 ELSE 0
      lo == a[2] + bw * Limb - b[2]
      hi == a[1] - b[1] - bw
  IN  [v |-> <<(hi + Limb) % Limb, lo>>, of |-> hi < 0]

(***************************************************************************)
(* Binary layout: sizes of the #[repr(C)] records, and their decoding      *)
(***************************************************************************)
HeaderSize == 4 + 4

WaveIdSize == 4

RiffHeaderWithWaveIdSize == HeaderSize + WaveIdSize

FmtDataSize == 2 + 2 + 4 + 4 + 2 + 2 + 2 + 2 + 4 + 16

MAX_READ_LEN == FmtDataSize

RIFF == <<82, 73, 70, 70>>

WAVE == <<87, 65, 86, 69>>

FMT == <<102, 109, 116, 32>>

DATA == <<100, 97, 116, 97>>

\* little_endian::U16 / U32 .get()
GetU16(b) == b[1] + 256 * b[2]

GetU32(b) == <<b[3] + 256 * b[4], b[1] + 256 * b[2]>>

\* transmute_ref!(&[u8; 8]) as &Header
DecodeHeader(bytes) ==
  [chunk_id |-> SubSeq(bytes, 1, 4), chunk_size |-> GetU32(SubSeq(bytes, 5, 8))]

\* transmute_ref!(&[u8; 12]) as &RiffHeaderWithWaveId
DecodeRiffHeaderWithWaveId(bytes) ==
  [header |-> DecodeHeader(SubSeq(bytes, 1, 8)), wave_id |-> SubSeq(bytes, 9, 12)]

\* transmute_ref!(&[u8; 40]) as &FmtData
DecodeFmtData(bytes) ==
  [format_tag |-> GetU16(SubSeq(bytes, 1, 2)),
   n_channels |-> GetU16(SubSeq(bytes, 3, 4)),
   n_samples_per_sec |-> GetU32(SubSeq(bytes, 5, 8)),
   n_avg_bytes_per_sec |-> GetU32(SubSeq(bytes, 9, 12)),
   n_block_align |-> GetU16(SubSeq(bytes, 13, 14)),
   w_bits_per_sample |-> GetU16(SubSeq(bytes, 15, 16)),
   cb_size |-> GetU16(SubSeq(bytes, 17, 18)),
   w_valid_bits_per_sample |-> GetU16(SubSeq(bytes, 19, 20)),
   dw_channel_mask |-> SubSeq(bytes, 21, 24),
   sub_format |-> SubSeq(bytes, 25, 40)]

(***************************************************************************)
(* Option / Result values                                                  *)
(***************************************************************************)
None == [some |-> FALSE]

Some(x) == [some |-> TRUE, v |-> x]

Ok(x) == [ok |-> TRUE, v |-> x]

Err(kind, bytes) == [ok |-> FALSE, err |-> kind, id |-> bytes]

\* Integer overflow: a panic where overflow checks are compiled in (debug
\* profile), two's-complement wrapping where they are not (release profile).
Builds == {"debug", "release"}

\* What an operation did: the value it returned (or the state it left), whether
\* it panicked, whether an addition or subtraction wrapped on the way, and
\* whether its remaining_data subtraction went below zero.
Panic(kind, v) == [panic |-> kind, wrapped |-> FALSE, under |-> FALSE, v |-> v]

Outcome(b, of, v, onPanic) ==
  IF of /\ b = "debug"
    THEN Panic("overflow", onPanic)
    ELSE [panic |-> "none", wrapped |-> of, under |-> FALSE, v |-> v]

Remaining(o, under) == [o EXCEPT !.under = under]

\* remaining_data = chunk_size - size_of::<WaveId>() - address, without the
\* 4 bytes of the wave id: a variant that forgets them
RemainingDataKeepingWaveId(chunk_size, address) ==
  LET s2 == SubU32(chunk_size, address)
  IN  [v |-> s2.v, of |-> s2.of]

\* remaining_data = chunk_size - size_of::<WaveId>() as u32 - address
RemainingData(chunk_size, address) ==
  LET s1 == SubU32(chunk_size, U32(WaveIdSize))
      s2 == SubU32(s1.v, address)
  IN  [v |-> s2.v, of |-> s1.of \/ s2.of]

\* a variant that accepts a remainder of exactly one header
HasRoomForHeaderInclusive(remaining_data) == Le(U32(HeaderSize), remaining_data)

\* remaining_data > size_of::<Header>() as u32
HasRoomForHeader(remaining_data) == Lt(U32(HeaderSize), remaining_data)

(***************************************************************************)
(* One-shot chunk walker                                                   *)
(***************************************************************************)
\* a variant that reports the chunk id where the wave id is wrong
parse_top_header_WrongId(bytes) ==
  LET r == DecodeRiffHeaderWithWaveId(bytes)
  IN  IF r.header.chunk_id = RIFF
        THEN IF r.wave_id = WAVE
               THEN Ok([chunk_size |-> r.header.chunk_size])
               ELSE Err("UnexpectedWaveId", r.header.chunk_id)
        ELSE Err("UnexpectedChunkId", r.header.chunk_id)

parse_top_header(bytes) ==
  LET r == DecodeRiffHeaderWithWaveId(bytes)
  IN  IF r.header.chunk_id = RIFF
        THEN IF r.wave_id = WAVE
               THEN Ok([chunk_size |-> r.header.chunk_size])
               ELSE Err("UnexpectedWaveId", r.wave_id)
        ELSE Err("UnexpectedChunkId", r.header.chunk_id)

ChunkInfo(address, size) == [address |-> address, size |-> size]

get_chunk_header_address(self, previous_chunk, b) ==
  LET a1 == AddU32(previous_chunk.v.address, U32(HeaderSize))
      a2 == AddU32(a1.v, previous_chunk.v.size)
      next_chunk_address == IF previous_chunk.some THEN a2.v ELSE U32(0)
      ofNext == previous_chunk.some /\ (a1.of \/ a2.of)
      r == RemainingData(self.chunk_size, next_chunk_address)
      remaining_data == r.v
      a3 == AddU32(U32(RiffHeaderWithWaveIdSize), next_chunk_address)
      under == r.of
  IN  IF ofNext /\ b = "debug"
        THEN Panic("overflow", None)
      ELSE IF under /\ b = "debug"
        THEN Remaining(Panic("overflow", None), TRUE)
      ELSE IF remaining_data = U32(0)
        THEN Remaining(Outcome(b, ofNext \/ under, Ok(None), None), under)
      ELSE IF HasRoomForHeader(remaining_data)
        THEN Remaining(Outcome(b, ofNext \/ under \/ a3.of, Ok(Some(a3.v)), None),
                       under)
      ELSE Remaining(Outcome(b, ofNext \/ under,
                             Err("IncompleteChunkHeader", <<>>), None), under)

get_chunk_info(address, header, b) ==
  LET s == SubU32(address, U32(RiffHeaderWithWaveIdSize))
  IN  Outcome(b, s.of, ChunkInfo(s.v, header.chunk_size), None)

(***************************************************************************)
(* Incremental metadata extractor: GetMetaDataForI2s                       *)
(***************************************************************************)
ScanningForChunk == [tag |-> "ScanningForChunk"]

ReadCurrentChunk(size) == [tag |-> "ReadCurrentChunk", current_chunk_size |-> size]

ReadFmtData(d) == [tag |-> "ReadFmtData", fmt_data |-> d]

ParseTopHeader == [tag |-> "ParseTopHeader"]

GetChunks(top, cur, f, d) ==
  [tag |-> "GetChunks", top_header_size |-> top,
   current_address_within_data |-> cur, fmt |-> f, data |-> d]

Done(r) == [tag |-> "Done", result |-> r]

MetaDataForI2s(f, a, s) == [fmt_data |-> f, data_address |-> a, data_size |-> s]

ReadRequest(a, s) == [kind |-> "Read", address |-> a, size |-> s]

new == ParseTopHeader

\* a variant that asks for as many bytes as the fmt chunk header declared
FmtReadRequestOfChunkSize(self) ==
  ReadRequest(U32(RiffHeaderWithWaveIdSize + HeaderSize),
              self.fmt.current_chunk_size)

\* The read request for the body of the fmt chunk
FmtReadRequest(self) ==
  ReadRequest(U32(RiffHeaderWithWaveIdSize + HeaderSize), U32(FmtDataSize))

\* fn output(&self) -> GetMetaDataForI2sOutput
output(self, b) ==
  CASE self.tag = "ParseTopHeader" ->
         Outcome(b, FALSE, ReadRequest(U32(0), U32(RiffHeaderWithWaveIdSize)), None)
    [] self.tag = "GetChunks" ->
         IF self.fmt.tag = "ReadCurrentChunk"
           THEN Outcome(b, FALSE, FmtReadRequest(self), None)
           ELSE LET a == AddU32(U32(RiffHeaderWithWaveIdSize),
                                self.current_address_within_data)
                IN  Outcome(b, a.of, ReadRequest(a.v, U32(HeaderSize)), None)
    [] self.tag = "Done" ->
         Outcome(b, FALSE, [kind |-> "Done", result |-> self.result], None)

\* a variant that ends the run at once when the container holds no chunk
AfterTopHeaderChecking(header) ==
  IF header.chunk_size = U32(WaveIdSize)
    THEN Done(Err("MissingChunks", <<>>))
    ELSE GetChunks(header.chunk_size, U32(0), ScanningForChunk, None)

\* The state an accepted top header leaves: scanning from cursor 0
AfterTopHeader(header) ==
  GetChunks(header.chunk_size, U32(0), ScanningForChunk, None)

\* a variant that checks the wave id before the chunk id
input_ParseTopHeader_WaveFirst(self, input, b) ==
  IF Len(input) # RiffHeaderWithWaveIdSize
    THEN Panic("unwrap", self)
    ELSE LET r == DecodeRiffHeaderWithWaveId(input)
         IN  IF r.wave_id = WAVE
               THEN IF r.header.chunk_id = RIFF
                      THEN Outcome(b, FALSE,
                                   AfterTopHeader(r.header), self)
                      ELSE Outcome(b, FALSE,
                                   Done(Err("UnexpectedChunkId", r.header.chunk_id)),
                                   self)
               ELSE Outcome(b, FALSE,
                            Done(Err("UnexpectedWaveId", r.wave_id)), self)

\* The first arm of input: the 12-byte top header
input_ParseTopHeader(self, input, b) ==
  IF Len(input) # RiffHeaderWithWaveIdSize
    THEN Panic("unwrap", self)
    ELSE LET r == DecodeRiffHeaderWithWaveId(input)
         IN  IF r.header.chunk_id = RIFF
               THEN IF r.wave_id = WAVE
                      THEN Outcome(b, FALSE,
                                   AfterTopHeader(r.header), self)
                      ELSE Outcome(b, FALSE,
                                   Done(Err("UnexpectedWaveId", r.wave_id)), self)
               ELSE Outcome(b, FALSE,
                            Done(Err("UnexpectedChunkId", r.header.chunk_id)), self)

\* a variant whose data arm also takes every unrelated chunk
IsDataIdOrOther(chunk_id) == chunk_id # FMT

\* the arm b"data" of the match on header.chunk_id
IsDataId(chunk_id) == chunk_id = DATA

\* a variant that forgets the captured fmt data at every other chunk header
FmtAfterHeaderResetting(fmt, header) ==
  IF header.chunk_id = FMT THEN ReadCurrentChunk(header.chunk_size)
  ELSE ScanningForChunk

\* what the match on header.chunk_id leaves in fmt
FmtAfterHeader(fmt, header) ==
  IF header.chunk_id = FMT THEN ReadCurrentChunk(header.chunk_size) ELSE fmt

\* a variant that advances past the bytes read instead of the declared size
BodyAdvanceByFmtData(fmt) == Some(U32(FmtDataSize))

\* advance_chunk after the fmt body: the size the fmt chunk header declared
BodyAdvance(fmt) == Some(fmt.current_chunk_size)

\* The second arm of input: a chunk header, or the body of the fmt chunk
input_GetChunks(self, input, b) ==
  LET want == IF self.fmt.tag = "ReadCurrentChunk" THEN FmtDataSize ELSE HeaderSize
      header == DecodeHeader(input)
      isFmt == header.chunk_id = FMT
      isData == IsDataId(header.chunk_id)
      fmt1 == IF self.fmt.tag = "ReadCurrentChunk"
                THEN ReadFmtData(DecodeFmtData(input))
                ELSE FmtAfterHeader(self.fmt, header)
      data1 == IF self.fmt.tag # "ReadCurrentChunk" /\ isData
                 THEN Some(<<self.current_address_within_data, header.chunk_size>>)
                 ELSE self.data
      advance_chunk == IF self.fmt.tag = "ReadCurrentChunk"
                         THEN BodyAdvance(self.fmt)
                         ELSE IF isFmt THEN None ELSE Some(header.chunk_size)
      \* the state as the arm has written it before its arithmetic
      mid == GetChunks(self.top_header_size, self.current_address_within_data,
                       fmt1, data1)
      d1 == AddU32(U32(RiffHeaderWithWaveIdSize), data1.v[1])
      d2 == AddU32(d1.v, U32(HeaderSize))
      r == RemainingData(self.top_header_size, self.current_address_within_data)
      remaining_data == r.v
      under == r.of
      c1 == AddU32(U32(HeaderSize), advance_chunk.v)
      c2 == AddU32(self.current_address_within_data, c1.v)
  IN  IF Len(input) # want
        THEN Panic("unwrap", self)
      ELSE IF fmt1.tag = "ReadFmtData" /\ data1.some
        THEN Outcome(b, d1.of \/ d2.of,
                     Done(Ok(MetaDataForI2s(fmt1.fmt_data, d2.v, data1.v[2]))), mid)
      ELSE IF advance_chunk.some
        THEN IF under /\ b = "debug"
               THEN Remaining(Panic("overflow", mid), TRUE)
             ELSE IF remaining_data = U32(0)
               THEN Remaining(Outcome(b, under,
                                      Done(Err("MissingChunks", <<>>)), mid), under)
             ELSE IF HasRoomForHeader(remaining_data)
               THEN Remaining(Outcome(b, under \/ c1.of \/ c2.of,
                                      GetChunks(self.top_header_size, c2.v,
                                                fmt1, data1), mid), under)
             ELSE Remaining(Outcome(b, under,
                                    Done(Err("IncompleteChunkHeader", <<>>)), mid),
                            under)
      ELSE Outcome(b, FALSE, mid, mid)

\* a variant whose Done arm starts over instead of panicking
input_Restarting(self, bytes, b) ==
  CASE self.tag = "ParseTopHeader" -> input_ParseTopHeader(self, bytes, b)
    [] self.tag = "GetChunks" -> input_GetChunks(self, bytes, b)
    [] self.tag = "Done" -> Outcome(b, FALSE, new, self)

\* fn input(&mut self, input: &[u8]); in Done the arm is unreachable!()
input(self, bytes, b) ==
  CASE self.tag = "ParseTopHeader" -> input_ParseTopHeader(self, bytes, b)
    [] self.tag = "GetChunks" -> input_GetChunks(self, bytes, b)
    [] self.tag = "Done" -> Panic("unreachable", self)

(***************************************************************************)
(* The byte source and the driver                                          *)
(***************************************************************************)
PutU32(v) == <<v[2] % 256, v[2] \div 256, v[1] % 256, v[1] \div 256>>

EncodeHeader(id, size) == id \o PutU32(size)

LIST == <<76, 73, 83, 84>>

RIFX == <<82, 73, 70, 88>>

AVI == <<65, 86, 73, 32>>

\* Bounds of the exploration
MaxInputs == 5

MaxOutputs == 2

TopTags == {RIFF, RIFX, DATA}

WaveIds == {WAVE, AVI, FMT}

ChunkTags == {FMT, DATA, LIST}

TotalSizes == {U32(0), U32(4), U32(12), U32(20), U32(64), U32Max}

ChunkSizes == {U32(0), U32(8), U32(40), SubU32(U32Max, U32(8)).v}

Filler(n, byte) == [i \in 1..n |-> byte]

TopHeaders ==
  {EncodeHeader(t, sz) \o w : t \in TopTags, sz \in TotalSizes, w \in WaveIds}

ChunkHeaders == {EncodeHeader(t, sz) : t \in ChunkTags, sz \in ChunkSizes}

FmtBodies == {Filler(FmtDataSize, 0), <<1, 0, 2, 0>> \o Filler(FmtDataSize - 4, 7)}

\* A byte source that returns exactly as many bytes as were asked for
Replies(req) ==
  {bytes \in TopHeaders \cup ChunkHeaders \cup FmtBodies : U32(Len(bytes)) = req.size}

NoOutput == [kind |-> "None"]

\* What the driver has supplied so far: whether a chunk header tagged fmt, the
\* bytes of the last fmt body, the address and bytes of the last chunk header
\* tagged data, and how many fmt bodies were asked for
NoHistory == [fmt_header |-> FALSE, body |-> <<>>, data |-> None, bodies |-> 0]

Supplied(h, req, bytes) ==
  IF req.kind # "Read" THEN h
  ELSE IF req.size = U32(HeaderSize) /\ Len(bytes) = HeaderSize
    THEN IF SubSeq(bytes, 1, 4) = FMT THEN [h EXCEPT !.fmt_header = TRUE]
         ELSE IF SubSeq(bytes, 1, 4) = DATA
           THEN [h EXCEPT !.data = Some([address |-> req.address, bytes |-> bytes])]
         ELSE h
  ELSE IF req.address = U32(0) THEN h
  ELSE [h EXCEPT !.body = bytes, !.bodies = @ + 1]

Init ==
  /\ build \in Builds
  /\ state = new
  /\ panicked = "none"
  /\ wrapped = FALSE
  /\ underflowed = FALSE
  /\ out = NoOutput
  /\ last_op = "new"
  /\ last_input = <<>>
  /\ n_inputs = 0
  /\ n_outputs = 0
  /\ file = <<>>
  /\ chunks = <<>>
  /\ driver = "running"
  /\ wf = None
  /\ w_prev = None
  /\ w_out = None
  /\ w_n = 0
  /\ hist = NoHistory

Running == panicked = "none" /\ driver = "running"

\* a variant in which output() consumes the request it returns
CallOutputTaking ==
  /\ Running
  /\ w_n = n_inputs
  /\ n_outputs < MaxOutputs
  /\ n_outputs' = n_outputs + 1
  /\ LET r == output(state, build)
     IN  /\ r.panic = "none"
         /\ out' = r.v
         /\ wrapped' = (wrapped \/ r.wrapped)
         /\ last_op' = "output"
         /\ state' = IF state.tag = "GetChunks"
                        THEN [state EXCEPT !.current_address_within_data =
                                AddU32(@, U32(HeaderSize)).v]
                        ELSE state
         /\ UNCHANGED panicked
  /\ UNCHANGED <<build, underflowed, last_input, n_inputs, file, chunks,
                 driver, wf, w_prev, w_out, w_n, hist>>

\* The driver calls output(); the walker has caught up with the last input
CallOutput ==
  /\ Running
  /\ w_n = n_inputs
  /\ n_outputs < MaxOutputs
  /\ n_outputs' = n_outputs + 1
  /\ LET r == output(state, build)
     IN  IF r.panic # "none"
           THEN /\ panicked' = r.panic
                /\ UNCHANGED <<out, wrapped, last_op>>
           ELSE /\ out' = r.v
                /\ wrapped' = (wrapped \/ r.wrapped)
                /\ last_op' = "output"
                /\ UNCHANGED panicked
  /\ UNCHANGED <<build, state, underflowed, last_input, n_inputs, file, chunks,
                 driver, wf, w_prev, w_out, w_n, hist>>

\* The effect of the driver's call input(bytes)
DoInput(bytes) ==
  LET r == input(state, bytes, build)
  IN  /\ state' = r.v
      /\ panicked' = r.panic
      /\ wrapped' = (wrapped \/ r.wrapped)
      /\ underflowed' = (underflowed \/ r.under)
      /\ last_op' = "input"
      /\ last_input' = bytes
      /\ n_inputs' = n_inputs + 1
      /\ n_outputs' = 0
      /\ hist' = Supplied(hist, out, bytes)
      /\ UNCHANGED <<build, out, file, chunks, driver, wf, w_prev, w_out, w_n>>

\* The driver answers the read request that output() just returned
CallInput ==
  /\ Running
  /\ last_op = "output"
  /\ out.kind = "Read"
  /\ n_inputs < MaxInputs
  /\ \E bytes \in Replies(out) : DoInput(bytes)

\* The driver calls input() although output() returned Done
CallInputAfterDone ==
  /\ Running
  /\ last_op = "output"
  /\ out.kind = "Done"
  /\ \E bytes \in ChunkHeaders : DoInput(bytes)

\* Side by side: the walker parses the top header the extractor was given and
\* asks for the address of the first chunk
WalkerParse ==
  /\ w_n < n_inputs
  /\ Len(last_input) = RiffHeaderWithWaveIdSize
  /\ LET c == parse_top_header(last_input)
     IN  /\ wf' = Some(c)
         /\ w_out' = IF c.ok THEN Some(get_chunk_header_address(c.v, None, build))
                             ELSE None
  /\ w_n' = n_inputs
  /\ UNCHANGED <<build, state, panicked, wrapped, underflowed, out, last_op, last_input,
                 n_inputs, n_outputs, file, chunks, driver, w_prev, hist>>

\* Side by side: the walker takes the chunk header the extractor was given, at
\* the address the extractor read it from, and asks for the next address
WalkerNext ==
  /\ w_n < n_inputs
  /\ Len(last_input) # RiffHeaderWithWaveIdSize
  /\ IF Len(last_input) = HeaderSize /\ wf.some /\ wf.v.ok /\ out.kind = "Read"
       THEN LET i == get_chunk_info(out.address, DecodeHeader(last_input), build)
            IN  /\ w_prev' = IF i.panic = "none" THEN Some(i.v) ELSE w_prev
                /\ w_out' = IF i.panic = "none"
                              THEN Some(get_chunk_header_address(
                                          wf.v.v, Some(i.v), build))
                              ELSE Some(i)
       ELSE UNCHANGED <<w_prev, w_out>>
  /\ w_n' = n_inputs
  /\ UNCHANGED <<build, state, panicked, wrapped, underflowed, out, last_op, last_input,
                 n_inputs, n_outputs, file, chunks, driver, wf, hist>>

Next ==
  \/ CallOutput
  \/ CallInput
  \/ CallInputAfterDone
  \/ WalkerParse
  \/ WalkerNext

Spec == Init /\ [][Next]_vars

(***************************************************************************)
(* A driver that serves the read requests from a well-formed file          *)
(***************************************************************************)
MaxChunks == 3

FmtSizes == {16, 40}

DataSizes == {0, 8}

OtherSizes == {0, 1, 40}

FileChunks ==
  [id : {FMT}, size : FmtSizes] \cup [id : {DATA}, size : DataSizes]
    \cup [id : {LIST}, size : OtherSizes]

ChunkLists == UNION {[1..n -> FileChunks] : n \in 0..MaxChunks}

RECURSIVE ChunkBytes(_, _)
\* chunks i.. of the list laid out contiguously: header, then size body bytes
ChunkBytes(cs, i) ==
  IF i > Len(cs) THEN <<>>
  ELSE EncodeHeader(cs[i].id, U32(cs[i].size))
         \o Filler(cs[i].size, i) \o ChunkBytes(cs, i + 1)

FileOf(cs) ==
  LET body == ChunkBytes(cs, 1)
  IN  EncodeHeader(RIFF, U32(WaveIdSize + Len(body))) \o WAVE \o body

InitFile ==
  /\ build \in Builds
  /\ state = new
  /\ panicked = "none"
  /\ wrapped = FALSE
  /\ underflowed = FALSE
  /\ out = NoOutput
  /\ last_op = "new"
  /\ last_input = <<>>
  /\ n_inputs = 0
  /\ n_outputs = 0
  /\ chunks \in ChunkLists
  /\ file = FileOf(chunks)
  /\ driver = "running"
  /\ wf = None
  /\ w_prev = None
  /\ w_out = None
  /\ w_n = 0
  /\ hist = NoHistory

\* The requested range [address, address + size) lies inside the file
InFile(req) ==
  /\ req.address[1] = 0
  /\ req.size[1] = 0
  /\ req.address[2] + req.size[2] <= Len(file)

\* The byte source returns exactly the requested bytes of the file
FileInput ==
  /\ Running
  /\ last_op = "output"
  /\ out.kind = "Read"
  /\ InFile(out)
  /\ DoInput(SubSeq(file, out.address[2] + 1, out.address[2] + out.size[2]))

\* The byte source cannot return the requested bytes: the read fails and the
\* driver gives up
FileReadFail ==
  /\ Running
  /\ last_op = "output"
  /\ out.kind = "Read"
  /\ ~InFile(out)
  /\ driver' = "ReadFailed"
  /\ UNCHANGED <<build, state, panicked, wrapped, underflowed, out, last_op, last_input,
                 n_inputs, n_outputs, file, chunks, wf, w_prev, w_out, w_n, hist>>

NextFile ==
  \/ CallOutput
  \/ FileInput
  \/ FileReadFail
  \/ CallInputAfterDone
  \/ WalkerParse
  \/ WalkerNext

FileSpec == InitFile /\ [][NextFile]_vars

(***************************************************************************)
(* Properties                                                              *)
(***************************************************************************)
RECURSIVE OffsetOf(_, _)
\* offset, within the data region after the top header, of the header of chunk i
OffsetOf(cs, i) ==
  IF i = 1 THEN 0 ELSE OffsetOf(cs, i - 1) + HeaderSize + cs[i - 1].size

Count(cs, id) == Cardinality({i \in 1..Len(cs) : cs[i].id = id})

OneFmtOneData(cs) == Count(cs, FMT) = 1 /\ Count(cs, DATA) = 1

IndexOf(cs, id) == CHOOSE i \in 1..Len(cs) : cs[i].id = id

\* The run is over: a final result, a panic, or a read the byte source refused
Ended == state.tag = "Done" \/ panicked # "none" \/ driver = "ReadFailed"

IsOk(st) == st.tag = "Done" /\ st.result.ok

IsErr(st, kind) == st.tag = "Done" /\ ~st.result.ok /\ st.result.err = kind

\* C1: for every well-formed file with exactly one fmt and one data chunk, in
\* either order and with unrelated chunks of any size around them, the strictly
\* driven run ends in Done(Ok(MetaData)) whose data_address is 12 + the offset
\* of the data header + 8 and whose data_size is the declared data size.
C1_RoundTrip ==
  (OneFmtOneData(chunks) /\ Ended) =>
     /\ IsOk(state)
     /\ state.result.v.data_address =
          U32(RiffHeaderWithWaveIdSize + OffsetOf(chunks, IndexOf(chunks, DATA))
              + HeaderSize)
     /\ state.result.v.data_size = U32(chunks[IndexOf(chunks, DATA)].size)

\* The file of the concrete scenario: fmt of 16 bytes, then data of 8 bytes
ScenarioChunks == <<[id |-> FMT, size |-> 16], [id |-> DATA, size |-> 8]>>

\* C2: for the file RIFF, 44, WAVE, fmt, 16, 16 format bytes, data, 8, 8 sample
\* bytes, the run in which every input is the bytes of the latest read request
\* ends in Done(Ok(MetaData)) with data_address = 44 and data_size = 8.
C2_Scenario ==
  (chunks = ScenarioChunks /\ Ended) =>
     /\ IsOk(state)
     /\ state.result.v.data_address = U32(44)
     /\ state.result.v.data_size = U32(8)

\* The declared size leaves 1..8 bytes at the cursor, where the next chunk
\* header starts
Truncated(st) ==
  /\ st.tag = "GetChunks"
  /\ LET s1 == SubU32(st.top_header_size, U32(4))
         s2 == SubU32(s1.v, st.current_address_within_data)
     IN  ~s1.of /\ ~s2.of /\ s2.v # U32(0) /\ Le(s2.v, U32(8))

\* C3 as stated: whenever the declared size leaves 1..8 bytes where the next
\* chunk header would start, the run terminates with IncompleteChunkHeader,
\* whatever the bytes supplied and whatever the progress so far.
C3_AlwaysIncomplete ==
  [][(Truncated(state) /\ state'.tag = "Done")
       => IsErr(state', "IncompleteChunkHeader")]_vars

\* C3, amended: from such a position an input that returns ends the run with
\* IncompleteChunkHeader, except that a fmt header is first followed by the read
\* of the fmt body, and except that an input which completes the pair fmt + data
\* ends the run with Done(Ok(MetaData)).
C3_TruncatedHeader ==
  [][(Truncated(state) /\ n_inputs' = n_inputs + 1 /\ panicked' = "none") =>
       LET body == state.fmt.tag = "ReadCurrentChunk"
           h == DecodeHeader(last_input')
           completes == IF body THEN state.data.some
                        ELSE h.chunk_id = DATA /\ state.fmt.tag = "ReadFmtData"
       IN  IF completes THEN IsOk(state')
           ELSE IF ~body /\ h.chunk_id = FMT
             THEN state' = [state EXCEPT !.fmt = ReadCurrentChunk(h.chunk_size)]
           ELSE IsErr(state', "IncompleteChunkHeader")]_vars

C3_Witness ==
  /\ IsErr(state, "IncompleteChunkHeader")
  /\ ~wrapped
  /\ n_inputs >= 3

\* C4: with top header RIFF / WAVE and declared total size 4 the run terminates
\* with MissingChunks, whatever bytes the driver returns for the reads issued
\* after the top header: until then the extractor is still at cursor 0, before
\* its first chunk header or between a fmt header and the fmt body.
C4_OnlyTopHeader ==
  (wf.some /\ wf.v.ok /\ wf.v.v.chunk_size = U32(4)) =>
     \/ IsErr(state, "MissingChunks")
     \/ /\ state.tag = "GetChunks"
        /\ state.top_header_size = U32(4)
        /\ state.current_address_within_data = U32(0)
        /\ \/ n_inputs = 1
           \/ n_inputs = 2 /\ state.fmt.tag = "ReadCurrentChunk"

C4_Witness ==
  /\ wf.some /\ wf.v.ok /\ wf.v.v.chunk_size = U32(4)
  /\ IsErr(state, "MissingChunks")
  /\ n_inputs = 3

\* C5: for every RIFF / WAVE top header, every declared total size and every
\* sequence of chunk headers, remaining = total_size - 4 - cursor in the
\* extractor and total_size - 4 - next in the walker never go below zero: a
\* computation that would underflow is rejected, never wrapped or faulted.
C5_NoUnderflow ==
  /\ ~underflowed
  /\ w_out.some => ~w_out.v.under

\* C6: for every top header whose first 4 bytes are not RIFF, parse_top_header
\* and the first input of the extractor both fail with UnexpectedChunkId
\* carrying exactly those 4 bytes, and the state after that one input is Done.
C6_NotRiff ==
  (n_inputs = 1 /\ SubSeq(last_input, 1, 4) # RIFF) =>
     /\ state = Done(Err("UnexpectedChunkId", SubSeq(last_input, 1, 4)))
     /\ w_n = 1 => wf = Some(Err("UnexpectedChunkId", SubSeq(last_input, 1, 4)))

C6_Witness ==
  /\ n_inputs = 1 /\ w_n = 1
  /\ SubSeq(last_input, 1, 4) # RIFF
  /\ SubSeq(last_input, 9, 12) = WAVE

\* C7: for every top header with tag RIFF and a container id other than WAVE,
\* parse_top_header and the first input of the extractor both fail with
\* UnexpectedWaveId carrying exactly the 4 container id bytes, for every size.
C7_NotWave ==
  (n_inputs = 1 /\ SubSeq(last_input, 1, 4) = RIFF
     /\ SubSeq(last_input, 9, 12) # WAVE) =>
     /\ state = Done(Err("UnexpectedWaveId", SubSeq(last_input, 9, 12)))
     /\ w_n = 1 => wf = Some(Err("UnexpectedWaveId", SubSeq(last_input, 9, 12)))

C7_Witness ==
  /\ n_inputs = 1 /\ w_n = 1
  /\ SubSeq(last_input, 1, 4) = RIFF
  /\ SubSeq(last_input, 9, 12) # WAVE
  /\ GetU32(SubSeq(last_input, 5, 8)) = U32Max

SizeIs(n) == out.size = U32(n)

\* C9 as stated: every read request has size at most MAX_READ_LEN = 22: 12 in
\* the initial state, 22 while the fmt body is awaited, 8 otherwise.
C9_AtMost22 ==
  (out.kind = "Read" /\ last_op = "output") =>
     /\ Le(out.size, U32(22))
     /\ state.tag = "ParseTopHeader" => SizeIs(12)
     /\ (state.tag = "GetChunks" /\ state.fmt.tag = "ReadCurrentChunk") => SizeIs(22)
     /\ (state.tag = "GetChunks" /\ state.fmt.tag # "ReadCurrentChunk") => SizeIs(8)

\* C9, amended: every read request has size at most MAX_READ_LEN = 40, the size
\* of FmtData: 12 in the initial state, 40 while the fmt body is awaited, 8
\* otherwise, whatever total size and chunk sizes the headers declared.
C9_AtMostMaxReadLen ==
  (out.kind = "Read" /\ last_op = "output") =>
     /\ Le(out.size, U32(MAX_READ_LEN))
     /\ MAX_READ_LEN = 40
     /\ state.tag = "ParseTopHeader" => SizeIs(12)
     /\ (state.tag = "GetChunks" /\ state.fmt.tag = "ReadCurrentChunk") => SizeIs(40)
     /\ (state.tag = "GetChunks" /\ state.fmt.tag # "ReadCurrentChunk") => SizeIs(8)

C9_Witness ==
  /\ out.kind = "Read" /\ last_op = "output"
  /\ state.tag = "GetChunks"
  /\ state.fmt.tag = "ReadCurrentChunk"
  /\ Lt(U32(MAX_READ_LEN), state.fmt.current_chunk_size)
  /\ state.top_header_size = U32Max

\* C10: Done is absorbing: once in Done(result) no operation changes the state
\* or the stored result, and every later output() returns exactly that result.
C10_DoneAbsorbing ==
  [][state.tag = "Done" =>
       /\ state' = state
       /\ out' # out => out' = [kind |-> "Done", result |-> state.result]]_vars

C10_Witness ==
  /\ state.tag = "Done"
  /\ out = [kind |-> "Done", result |-> state.result]
  /\ panicked = "unreachable"

\* C11 as stated: Done(Ok(MetaData)) only if earlier in the run an input decoded
\* a chunk header tagged data and a 22-byte format descriptor was read after a
\* chunk header tagged fmt; the result carries that descriptor and that data
\* location.
C11_OkOnlyAfter22 ==
  IsOk(state) =>
     /\ hist.data.some
     /\ hist.fmt_header
     /\ Len(hist.body) = 22

\* C11, amended: the same with the format descriptor that the code reads, of
\* size_of::<FmtData>() = 40 bytes: the descriptor returned is the one decoded
\* from those bytes, data_address is the address of the data header + 8 and
\* data_size the size that header declared; no Ok while either is unseen.
C11_OkOnlyAfterBoth ==
  IsOk(state) =>
     /\ hist.data.some
     /\ hist.fmt_header
     /\ Len(hist.body) = 40
     /\ state.result.v.fmt_data = DecodeFmtData(hist.body)
     /\ state.result.v.data_address = AddU32(hist.data.v.address, U32(8)).v
     /\ state.result.v.data_size = GetU32(SubSeq(hist.data.v.bytes, 5, 8))

C11_Witness ==
  /\ IsOk(state)
  /\ n_inputs >= 4
  /\ state.result.v.fmt_data.n_channels = 2
  /\ state.result.v.data_size = U32(8)

\* C12: whenever the format-state is AwaitingBody (a fmt chunk header was just
\* read at cursor c), output() requests the format descriptor at the address
\* right after that header, 12 + c + 8, for every position c of the fmt chunk
\* (the size of that request is the subject of C9).
C12_BodyAfterHeader ==
  (state.tag = "GetChunks" /\ state.fmt.tag = "ReadCurrentChunk"
     /\ last_op = "output" /\ out.kind = "Read") =>
     out.address =
       AddU32(AddU32(U32(12), state.current_address_within_data).v, U32(8)).v

\* C13: for every well-formed chunk stream (contiguous chunks of any size, the
\* last one ending exactly at the declared total size) that does not contain
\* both a fmt and a data chunk, the run terminates with MissingChunks and with
\* no other result.
C13_MissingChunks ==
  ((Count(chunks, FMT) = 0 \/ Count(chunks, DATA) = 0) /\ Ended) =>
     IsErr(state, "MissingChunks")

\* An input step that hands the extractor a chunk header tagged 'fmt '
FmtHeaderStep ==
  /\ n_inputs' = n_inputs + 1
  /\ state.tag = "GetChunks"
  /\ state.fmt.tag # "ReadCurrentChunk"
  /\ Len(last_input') = HeaderSize
  /\ SubSeq(last_input', 1, 4) = FMT

\* An input step that hands the extractor the body it asked for
FmtBodyStep ==
  /\ n_inputs' = n_inputs + 1
  /\ state.tag = "GetChunks"
  /\ state.fmt.tag = "ReadCurrentChunk"
  /\ panicked' # "unwrap"

\* What the two steps do to the state, for a body of len bytes
FmtFrameEffect(len) ==
  /\ FmtHeaderStep =>
       /\ state' = [state EXCEPT !.fmt =
                      ReadCurrentChunk(GetU32(SubSeq(last_input', 5, 8)))]
       /\ panicked' = "none"
       /\ underflowed' = underflowed
       /\ wrapped' = wrapped
  /\ FmtBodyStep =>
       LET remaining == SubU32(SubU32(state.top_header_size, U32(4)).v,
                               state.current_address_within_data).v
           step == AddU32(U32(8), state.fmt.current_chunk_size).v
           d == ReadFmtData(DecodeFmtData(last_input'))
       IN  /\ Len(last_input') = len
           /\ state'.tag = "GetChunks" => state'.fmt = d
           /\ (panicked' = "none" /\ state.data.some) => IsOk(state')
           /\ (panicked' = "none" /\ ~state.data.some /\ Lt(U32(8), remaining)) =>
                state' = [state EXCEPT
                            !.fmt = d,
                            !.current_address_within_data = AddU32(@, step).v]

\* C14 as stated: a 'fmt ' header changes only the format state, to
\* ReadCurrentChunk with the header's size, and makes no remaining-bytes check;
\* the next input, the 22-byte body, captures the descriptor and, when the
\* result is not final and more than 8 bytes remain, advances the cursor by 8
\* plus the remembered chunk size.
C14_FrameEffect22 == [][FmtFrameEffect(22)]_vars

\* C14, amended: the same frame effect, the body being the 40 bytes of FmtData
C14_FrameEffect == [][FmtFrameEffect(FmtDataSize)]_vars

C14_Witness ==
  /\ n_inputs = 3
  /\ state.tag = "GetChunks"
  /\ state.fmt.tag = "ReadFmtData"
  /\ ~state.data.some
  /\ state.current_address_within_data = U32(16)
  /\ Len(last_input) = FmtDataSize

\* The walker's answer, worked out from the declared total size and the
\* previous chunk it was given: under is TRUE when total - 4 - next is negative
WalkerExpected ==
  LET a1 == AddU32(w_prev.v.address, U32(8))
      a2 == AddU32(a1.v, w_prev.v.size)
      next == IF w_prev.some THEN a2.v ELSE U32(0)
      s1 == SubU32(wf.v.v.chunk_size, U32(4))
      s2 == SubU32(s1.v, next)
      remaining == s2.v
  IN  [over |-> w_prev.some /\ (a1.of \/ a2.of),
       under |-> s1.of \/ s2.of,
       result |-> IF remaining = U32(0) THEN Ok(None)
                  ELSE IF Lt(U32(8), remaining)
                    THEN Ok(Some(AddU32(U32(12), next).v))
                  ELSE Err("IncompleteChunkHeader", <<>>)]

\* C15: the walker's next-chunk-address computes next = 0 without a previous
\* chunk and offset + 8 + size with one, and remaining = total_size - 4 - next;
\* it returns no next chunk exactly when remaining = 0, the address 12 + next
\* exactly when remaining > 8 and IncompleteChunkHeader exactly when
\* 1 <= remaining <= 8.
C15_WalkerAddress ==
  (w_out.some /\ w_out.v.panic = "none") =>
     /\ ~WalkerExpected.over
     /\ ~WalkerExpected.under
     /\ w_out.v.v = WalkerExpected.result

\* C16: for every declared total size and every sequence of bytes the driver
\* supplies, a driver that alternates output() and input() strictly reaches
\* Done after finitely many exchanges; in particular no run stops in a
\* non-Done state because of an arithmetic fault.
C16_NoArithmeticFault == panicked = "overflow" => state.tag = "Done"

\* C17: UnexpectedChunkId and UnexpectedWaveId can be the Done result only as
\* the outcome of the first input, the 12-byte top header; once the extractor
\* has entered GetChunks the only terminal results are Ok, IncompleteChunkHeader
\* and MissingChunks, and the first input never yields those three.
C17_StructuralOnlyFirst ==
  [][(state.tag # "Done" /\ state'.tag = "Done") =>
       IF n_inputs = 0
         THEN /\ state.tag = "ParseTopHeader"
              /\ Len(last_input') = RiffHeaderWithWaveIdSize
              /\ ~state'.result.ok
              /\ state'.result.err \in {"UnexpectedChunkId", "UnexpectedWaveId"}
         ELSE /\ state.tag = "GetChunks"
              /\ \/ state'.result.ok
                 \/ state'.result.err \in {"IncompleteChunkHeader", "MissingChunks"}]_vars

C17_Witness ==
  /\ n_inputs >= 2
  /\ IsErr(state, "IncompleteChunkHeader")
  /\ wf.some
  /\ wf.v.ok

\* x <= y for two sums that carry their bit 32 in of
WideLe(x, y) == (~x.of /\ y.of) \/ (x.of = y.of /\ Le(x.v, y.v))

\* C18: after the top header has been accepted with declared total size, every
\* read request the extractor issues lies inside the declared extent:
\* address + size <= 8 + total_size.
C18_RequestInside ==
  (state.tag = "GetChunks" /\ last_op = "output" /\ out.kind = "Read") =>
     WideLe(AddU32(out.address, out.size),
            AddU32(U32(HeaderSize), state.top_header_size))

\* C19: the extractor agrees with the walker run side by side on the same total
\* size and chunk headers: it requests a chunk header at address A only when
\* the walker, given the previously consumed chunk, returns address A; when the
\* walker returns no next chunk or IncompleteChunkHeader the extractor issues
\* no further header read.
C19_AgreesWithWalker ==
  (/\ state.tag = "GetChunks"
   /\ state.fmt.tag # "ReadCurrentChunk"
   /\ last_op = "output"
   /\ out.kind = "Read") =>
     /\ w_out.some
     /\ w_out.v.panic = "none"
     /\ w_out.v.v = Ok(Some(out.address))

\* A step from a state with the descriptor captured to another GetChunks state
CapturedStep ==
  /\ state.tag = "GetChunks"
  /\ state.fmt.tag = "ReadFmtData"
  /\ state'.tag = "GetChunks"

\* C20 as stated: once the format descriptor has been captured the format
\* state stays ReadFmtData(d) in every later GetChunks state; no later input,
\* a further 'fmt ' header included, returns it to ReadCurrentChunk or
\* replaces d, and a body read is answered at most once per run.
C20_CapturedForever ==
  [][/\ CapturedStep => state'.fmt = state.fmt
     /\ hist'.bodies <= 1]_vars

\* C20, amended: a captured descriptor is kept by every input except a chunk
\* header tagged 'fmt ', which returns the format state to ReadCurrentChunk
\* with that header's size, so that the body is read again and replaces d.
C20_CapturedUntilFmtHeader ==
  [][CapturedStep =>
       state'.fmt = IF n_inputs' = n_inputs + 1 /\ SubSeq(last_input', 1, 4) = FMT
                      THEN ReadCurrentChunk(GetU32(SubSeq(last_input', 5, 8)))
                      ELSE state.fmt]_vars

C20_Witness ==
  /\ hist.bodies = 2
  /\ state.tag = "GetChunks"
  /\ state.fmt.tag = "ReadFmtData"
  /\ state.fmt.fmt_data = DecodeFmtData(hist.body)
  /\ state.fmt.fmt_data.n_channels = 2

====
